---- MODULE Spec2Model ----
(***************************************************************************)
(* A model of kale's command line entry point (kale/command_line.py, main) *)
(* and of the Kale compiler object (kale/core.py): the construction of a   *)
(* Kale instance, the stages of Kale.run, and deploy_pipeline_to_kfp.      *)
(*                                                                         *)
(* Python strings are sequences of one-character strings, so that          *)
(* concatenation, os.path and the regular expressions are computed and not *)
(* assumed.  The stages that live in other packages (nbparser,             *)
(* static_analysis, codegen, kfp, rok-gw) either return or raise.          *)
(***************************************************************************)
EXTENDS Integers, Sequences, FiniteSets, TLC

\* ------------------------------------------------------------------ bounds

\* The longest list generate_notebooks_from_yml returns.
MaxNotebooks == 2

\* ------------------------------------------------------------ Python values

\* Python's None and a value that is not None.
None == [none |-> TRUE]
Some(x) == [none |-> FALSE, v |-> x]

\* A dict is a function; {**a, **b}: b's keys win.
DictMerge(a, b) ==
  [k \in (DOMAIN a) \cup (DOMAIN b) |-> IF k \in DOMAIN b THEN b[k] ELSE a[k]]

\* ------------------------------------------------------------------ strings

LowerAlnum ==
  {"a", "b", "c", "d", "e", "f", "g", "h", "i", "j", "k", "l", "m",
   "n", "o", "p", "q", "r", "s", "t", "u", "v", "w", "x", "y", "z",
   "0", "1", "2", "3", "4", "5", "6", "7", "8", "9"}

\* Python's '$' also matches just before one trailing newline.
DollarStrip(s) ==
  IF Len(s) > 0 /\ s[Len(s)] = "\n" THEN SubSeq(s, 1, Len(s) - 1) ELSE s

\* re.match(r'^[a-z0-9]([-a-z0-9]*[a-z0-9])?$', s)
MatchKaleBlockName(s) ==
  LET t == DollarStrip(s) IN
    /\ Len(t) >= 1
    /\ t[1] \in LowerAlnum
    /\ t[Len(t)] \in LowerAlnum
    /\ \A i \in 1..Len(t) : t[i] \in LowerAlnum \cup {"-"}

\* re.match(r'^[\.\-a-z0-9]+$', s)
MatchK8sName(s) ==
  LET t == DollarStrip(s) IN
    /\ Len(t) >= 1
    /\ \A i \in 1..Len(t) : t[i] \in LowerAlnum \cup {"-", "."}

\* os.path.dirname: everything up to the last '/', without trailing slashes
\* unless it consists of slashes only.
LastSlash(p) ==
  LET at == {i \in 1..Len(p) : p[i] = "/"} IN
    IF at = {} THEN 0 ELSE CHOOSE i \in at : \A j \in at : j <= i

RECURSIVE RStripSlash(_)
RStripSlash(s) ==
  IF Len(s) > 0 /\ s[Len(s)] = "/" THEN RStripSlash(SubSeq(s, 1, Len(s) - 1))
  ELSE s

Dirname(p) ==
  LET head == SubSeq(p, 1, LastSlash(p)) IN
    IF Len(head) > 0 /\ \E i \in 1..Len(head) : head[i] # "/"
    THEN RStripSlash(head)
    ELSE head

\* os.path.join(a, b)
PathJoin(a, b) ==
  IF Len(b) > 0 /\ b[1] = "/" THEN b
  ELSE IF Len(a) = 0 \/ a[Len(a)] = "/" THEN a \o b
  ELSE a \o <<"/">> \o b

\* f"kfp_{pipeline_name}.kfp.py"
OutputFileName(pipeline_name) ==
  <<"k", "f", "p", "_">> \o pipeline_name \o <<".", "k", "f", "p", ".", "p", "y">>

\* The output path without the notebook's directory.
OutputPathInWorkingDirectory(source_notebook_path, pipeline_name) ==
  OutputFileName(pipeline_name)

\* os.path.join(os.path.dirname(self.source_path), f"kfp_{pipeline_name}.kfp.py")
OutputPath(source_notebook_path, pipeline_name) ==
  PathJoin(Dirname(source_notebook_path), OutputFileName(pipeline_name))

\* self.pipeline_name + '.pipeline.tar.gz'
PipelineFilename(pipeline_name) ==
  pipeline_name \o <<".", "p", "i", "p", "e", "l", "i", "n", "e",
                     ".", "t", "a", "r", ".", "g", "z">>

\* tmp_dir + '/' + "pipeline_code.py", tmp_dir the n-th fresh directory of
\* tempfile.mkdtemp()
Digits == <<"1", "2", "3", "4", "5", "6", "7", "8", "9">>

TmpCopyPath(n) ==
  <<"/", "t", "m", "p", "/", "t", Digits[n], "/",
    "p", "i", "p", "e", "l", "i", "n", "e", "_", "c", "o", "d", "e", ".", "p", "y">>

\* ------------------------------------------------------- results of a call

\* A call returns a value or raises an exception.
Ok(x) == [exc |-> "none", v |-> x]
Raise(e) == [exc |-> e]

\* ------------------------------------------------------------------ volumes

\* Kale._get_cloned_volume: the first snapshot member with the volume's name.
_get_cloned_volume(volume, snapshot_volumes) ==
  IF "name" \notin DOMAIN volume THEN Raise("KeyError")
  ELSE
    LET hits == {i \in 1..Len(snapshot_volumes) :
                   snapshot_volumes[i].object_name = volume["name"]} IN
      IF hits = {} THEN Raise("ValueError")
      ELSE
        LET snap == snapshot_volumes[CHOOSE i \in hits : \A j \in hits : i <= j] IN
          Ok(DictMerge(volume,
                       [type |-> "new_pvc",
                        annotation |-> [key |-> "rok/origin", value |-> snap.rok_url]]))

\* The loop of create_cloned_volumes over volumes[i..], _volumes so far.
RECURSIVE CloneLoop(_, _, _, _)
CloneLoop(volumes, i, snapshot_volumes, _volumes) ==
  IF i > Len(volumes) THEN Ok(Some(_volumes))
  ELSE IF "type" \notin DOMAIN volumes[i] THEN Raise("KeyError")
  ELSE IF volumes[i]["type"] = "clone" THEN
    LET r == _get_cloned_volume(volumes[i], snapshot_volumes) IN
      IF r.exc # "none" THEN r
      ELSE CloneLoop(volumes, i + 1, snapshot_volumes, Append(_volumes, r.v))
  ELSE CloneLoop(volumes, i + 1, snapshot_volumes, Append(_volumes, volumes[i]))

\* any(v['type'] == 'clone' for v in volumes): "KeyError" when a volume with
\* no 'type' is met before a clone is.
AnyClone(volumes) ==
  LET stop == {i \in 1..Len(volumes) :
                 "type" \notin DOMAIN volumes[i] \/ volumes[i]["type"] = "clone"} IN
    IF stop = {} THEN Ok(FALSE)
    ELSE LET i == CHOOSE i \in stop : \A j \in stop : i <= j IN
           IF "type" \in DOMAIN volumes[i] THEN Ok(TRUE) ELSE Raise("KeyError")

\* run_cmd with the exit code of the command ignored.
run_cmd_ignoring_exit_code(cmd) == Ok(cmd.out)

\* Kale.run_cmd on the rok-gw command: its output, or RuntimeError.
run_cmd(cmd) ==
  IF cmd.exit_code # 0 THEN Raise("RuntimeError") ELSE Ok(cmd.out)

\* Kale.create_cloned_volumes; cmd is what the rok-gw command does when run.
create_cloned_volumes(volumes, cmd) ==
  LET any == AnyClone(volumes) IN
    IF any.exc # "none" THEN any
    ELSE IF ~any.v THEN Ok(None)
    ELSE
      LET output == run_cmd(cmd) IN
        IF output.exc # "none" THEN output
        ELSE CloneLoop(volumes, 1, output.v.group_members, <<>>)

\* The volumes list Kale.__init__ hands to create_cloned_volumes: a copy of
\* the requested ones, then every notebook volume as a clone.
RECURSIVE NotebookVolumes(_)
NotebookVolumes(lv) ==
  IF lv = <<>> THEN <<>>
  ELSE <<[mount_point |-> Head(lv).mount_path,
          name |-> Head(lv).name,
          size |-> Head(lv).size,
          snapshot |-> FALSE,
          type |-> "clone"]>> \o NotebookVolumes(Tail(lv))

AllVolumes(volumes, lv) ==
  (IF volumes.none \/ volumes.v = <<>> THEN <<>> ELSE volumes.v) \o NotebookVolumes(lv)

\* The checks of validate_metadata on one volume.
VolumeInvalid(v) ==
  \/ "name" \notin DOMAIN v
  \/ ~MatchK8sName(v["name"])
  \/ /\ "snapshot" \in DOMAIN v
     /\ v["snapshot"]
     /\ \/ "snapshot_name" \notin DOMAIN v
        \/ ~MatchK8sName(v["snapshot_name"])

\* Kale.validate_metadata: "none" when it returns, else the exception raised.
\* Iterating over self.volumes when it is None is a TypeError.
validate_metadata(self) ==
  IF ~MatchKaleBlockName(self.pipeline_name) THEN "ValueError"
  ELSE IF self.volumes.none THEN "TypeError"
  ELSE IF \E i \in 1..Len(self.volumes.v) : VolumeInvalid(self.volumes.v[i])
       THEN "ValueError"
  ELSE "none"

\* Kale.__init__: the instance, or the exception raised.  exists is
\* self.source_path.exists(), lv what list_volumes() returns, cmd what the
\* rok-gw command does when run.
KaleInit(source_notebook_path, experiment_name, pipeline_name, pipeline_descr, docker_image, volumes, upload_pipeline, run_pipeline, exists, lv, cmd) ==
  IF ~exists THEN Raise("ValueError")
  ELSE
    LET vols == create_cloned_volumes(AllVolumes(volumes, lv), cmd) IN
      IF vols.exc # "none" THEN vols
      ELSE Ok([source_path |-> source_notebook_path,
               output_path |-> OutputPath(source_notebook_path, pipeline_name),
               upload_pipeline |-> upload_pipeline,
               run_pipeline |-> run_pipeline,
               experiment_name |-> experiment_name,
               pipeline_name |-> pipeline_name,
               pipeline_description |-> pipeline_descr,
               docker_base_image |-> docker_image,
               volumes |-> vols.v])

\* ------------------------------------------------------------- command line

FlagKeys == {"upload_pipeline", "run_pipeline", "debug"}
StringKeys == {"nb", "experiment_name", "pipeline_name", "pipeline_description",
               "docker_image", "kfp_dns", "jupyter_args"}
ArgKeys == StringKeys \cup FlagKeys

\* parser.parse_args(): argv maps the options given on the command line to
\* their values.  An option with action='store_true' is True when given and
\* False when not; any other option not given is None.
ParseArgs(cmdline) ==
  [k \in ArgKeys |->
     IF k \in FlagKeys THEN Some(k \in DOMAIN cmdline)
     ELSE IF k \in DOMAIN cmdline THEN Some(cmdline[k])
     ELSE None]

\* {k: v for k, v in vars(args).items() if v is not None}
NotNone(args) ==
  [k \in {k \in DOMAIN args : ~args[k].none} |-> args[k].v]

\* {**notebook_metadata, **{...}}
MergeMetadata(nbmeta, args) == DictMerge(nbmeta, NotNone(args))

REQUIRED_ARGUMENTS == {"experiment_name", "pipeline_name", "docker_image"}

\* -------------------------------------------------------------------- state

VARIABLES
  argv,                 \* the options given on the command line, with values
  notebook_metadata,    \* the notebook's metadata under the kale key
  metadata_arguments,   \* main: the merged dict, None before the merge
  main_pc,              \* main: "start", "dispatch", "loop", "single", "done", "raised"
  main_exc,             \* main: the exception that left main, or "none"
  generated_notebooks,  \* main: what generate_notebooks_from_yml returned
  doc,                  \* main: how many Kale(...) calls have been started
  kale,                 \* the Kale instance being run, None when there is none
  pc,                   \* Kale.run: the stage to start next; "none", "done"
  exc,                  \* Kale.run: the stage whose exception was caught, or "none"
  kfp_code,             \* Kale.run: the text gen_kfp_code returned, None before
  stages,               \* the stages the current run has started, in order
  fs,                   \* the file system: path -> content
  written,              \* the paths the current run has written
  saved,                \* per Kale call: what save_pipeline wrote, and where
  tmp_dirs,             \* how many directories mkdtemp has made
  snapshot,             \* what the volume/snapshot collaborator did in the last
                        \* Kale(...) call: "not run", "failed", "missing", "ok"
  cv_volumes,           \* create_cloned_volumes alone: the volumes given,
  cv_cmd,               \*   what the rok-gw command does,
  cv_result,            \*   and the result of the call, None before it
  log                   \* what the logger has been given since the last Kale(...) call

vars == <<argv, notebook_metadata, metadata_arguments, main_pc, main_exc,
          generated_notebooks, doc, kale, pc, exc, kfp_code, stages, fs,
          written, saved, tmp_dirs, snapshot, cv_volumes, cv_cmd, cv_result, log>>

inputVars == <<argv, notebook_metadata, cv_volumes, cv_cmd, cv_result>>
mainVars == <<metadata_arguments, main_pc, main_exc, generated_notebooks>>
runVars == <<kale, pc, exc, kfp_code, stages, snapshot>>
fileVars == <<fs, written, saved, tmp_dirs>>

\* ------------------------------------------------------------------- inputs

EmptyDict == [k \in {} |-> k]

\* The command lines tried: --nb is required; the other options are given or
\* not.
ArgValue(k) ==
  CASE k = "nb" -> <<"d", "/", "n">>
    [] k = "pipeline_name" -> <<"p", "-">>
    [] k = "jupyter_args" -> <<"y">>
    [] OTHER -> TRUE

CommandLine(given) == [k \in {"nb"} \cup given |-> ArgValue(k)]

SingleCommandLines ==
  {CommandLine(given) :
     given \in SUBSET {"pipeline_name", "upload_pipeline", "run_pipeline"}}

SweepCommandLines ==
  {CommandLine(given \cup {"jupyter_args"}) :
     given \in SUBSET {"upload_pipeline", "run_pipeline"}}

Vol(type, name) == [type |-> type, name |-> name]

RequestedVolumes ==
  {<<>>,
   <<Vol("pvc", <<"b">>)>>,
   <<Vol("clone", <<"a">>)>>,
   <<Vol("clone", <<"a">>), Vol("pvc", <<"B">>)>>,
   <<[type |-> "pvc"]>>,
   <<[type |-> "pvc", name |-> <<"b">>, snapshot |-> TRUE]>>,
   <<[type |-> "pvc", name |-> <<"b">>, snapshot |-> TRUE,
      snapshot_name |-> <<"s", ".", "1">>]>>}

FullMetadata(volumes) ==
  [experiment_name |-> <<"e">>, pipeline_name |-> <<"p">>,
   pipeline_description |-> <<"d">>, docker_image |-> <<"i">>,
   volumes |-> volumes]

NotebookMetadatas ==
  {EmptyDict,
   [experiment_name |-> <<"e">>, pipeline_name |-> <<"p">>,
    docker_image |-> <<"i">>],
   DictMerge(FullMetadata(<<>>), [upload_pipeline |-> TRUE])}
  \cup {FullMetadata(v) : v \in RequestedVolumes}

\* The sweeps are tried on fewer notebooks than the single compilations.
SweepMetadatas ==
  {FullMetadata(<<>>), FullMetadata(<<Vol("clone", <<"a">>), Vol("pvc", <<"B">>)>>)}

Inputs ==
  (SingleCommandLines \X NotebookMetadatas) \cup (SweepCommandLines \X SweepMetadatas)

\* What generate_notebooks_from_yml may return: (notebook path, suffix) pairs.
GeneratedPairs ==
  {<<<<"d", "/", "1">>, <<>>>>,
   <<<<"d", "/", "1">>, <<"1">>>>,
   <<<<"2">>, <<"1">>>>}

RECURSIVE SeqsUpTo(_, _)
SeqsUpTo(S, n) ==
  IF n = 0 THEN {<<>>}
  ELSE LET shorter == SeqsUpTo(S, n - 1) IN
         shorter \cup {Append(q, x) : q \in shorter, x \in S}

GeneratedLists == SeqsUpTo(GeneratedPairs, MaxNotebooks)

\* What list_volumes() may return, in the order of its items().
ListVolumesResults ==
  {<<>>, <<[mount_path |-> <<"/", "a">>, name |-> <<"a">>, size |-> 1]>>}

\* What the rok-gw command may do: a non-zero exit code, or the members of
\* the snapshot on its output.
Member(name, url) == [object_name |-> name, rok_url |-> url]

CommandResults ==
  {[exit_code |-> 1, out |-> [group_members |-> <<Member(<<"a">>, "u1")>>]]}
  \cup {[exit_code |-> 0, out |-> [group_members |-> m]] :
          m \in {<<>>,
                 <<Member(<<"a">>, "u1")>>,
                 <<Member(<<"b">>, "u0"), Member(<<"a">>, "u1"),
                   Member(<<"a">>, "u2")>>}}

\* The texts gen_kfp_code may return.
Codes == {"code1", "code2"}

\* --------------------------------------------------------------------- Init

Init ==
  /\ \E input \in Inputs : argv = input[1] /\ notebook_metadata = input[2]
  /\ metadata_arguments = None
  /\ main_pc = "start"
  /\ main_exc = "none"
  /\ generated_notebooks = <<>>
  /\ doc = 0
  /\ kale = None
  /\ pc = "none"
  /\ exc = "none"
  /\ kfp_code = None
  /\ stages = <<>>
  /\ fs = EmptyDict
  /\ written = {}
  /\ saved = <<>>
  /\ tmp_dirs = 0
  /\ snapshot = "not run"
  /\ cv_volumes = <<>>
  /\ cv_cmd = None
  /\ cv_result = None
  /\ log = <<>>

\* --------------------------------------------------------------------- main

Error(msg) == [level |-> "error", msg |-> msg]
Info(msg) == [level |-> "info", msg |-> msg]

\* main, lines 48-55: parse the command line, read the notebook metadata,
\* merge them and check the required arguments.
MainStart ==
  /\ main_pc = "start"
  /\ LET merged == MergeMetadata(notebook_metadata, ParseArgs(argv)) IN
       /\ metadata_arguments' = Some(merged)
       /\ IF \E r \in REQUIRED_ARGUMENTS : r \notin DOMAIN merged
          THEN main_pc' = "raised" /\ main_exc' = "ValueError"
          ELSE main_pc' = "dispatch" /\ main_exc' = main_exc
  /\ UNCHANGED <<inputVars, generated_notebooks, doc, runVars, fileVars, log>>

\* main, lines 59-61: generate_notebooks_from_yml returns a list, or raises.
MainGenerate ==
  /\ main_pc = "dispatch"
  /\ "jupyter_args" \in DOMAIN metadata_arguments.v
  /\ \/ /\ generated_notebooks' \in GeneratedLists
        /\ main_pc' = "loop"
        /\ main_exc' = main_exc
     \/ /\ generated_notebooks' = generated_notebooks
        /\ main_pc' = "raised"
        /\ main_exc' = "Exception"
  /\ UNCHANGED <<inputVars, metadata_arguments, doc, runVars, fileVars, log>>

\* What the volume/snapshot collaborator does for these volumes: the rok-gw
\* command is run when a clone is requested; it exits non-zero ("failed"), or
\* its snapshot lacks a member named like one of the clones ("missing").
SnapshotOutcome(volumes, cmd) ==
  LET clones == {i \in 1..Len(volumes) :
                   "type" \in DOMAIN volumes[i] /\ volumes[i]["type"] = "clone"}
      members == cmd.out.group_members
  IN IF clones = {} THEN "not run"
     ELSE IF cmd.exit_code # 0 THEN "failed"
     ELSE IF \E i \in clones :
               /\ "name" \in DOMAIN volumes[i]
               /\ \A j \in 1..Len(members) :
                     members[j].object_name # volumes[i]["name"]
          THEN "missing"
     ELSE "ok"

\* The call Kale(...) of main for notebook n with suffix params (sweep) or
\* for args.nb (no sweep): the arguments are looked up in metadata_arguments
\* (a missing key is a KeyError), then Kale.__init__ runs.  The exception, if
\* any, leaves main; otherwise .run() is entered.
Construct(n, experiment_name, pipeline_name, pipeline_descr, next_pc) ==
  LET m == metadata_arguments.v IN
  /\ doc' = doc + 1
  /\ saved' = Append(saved, None)
  /\ IF {"experiment_name", "pipeline_name", "pipeline_description", "docker_image",
         "upload_pipeline", "run_pipeline", "volumes"} \subseteq DOMAIN m
     THEN \E exists \in IF n = argv["nb"] THEN {TRUE} ELSE BOOLEAN,
             lv \in ListVolumesResults, cmd \in CommandResults :
            LET k == KaleInit(n, experiment_name, pipeline_name, pipeline_descr,
                              m["docker_image"], Some(m["volumes"]),
                              m["upload_pipeline"], m["run_pipeline"],
                              exists, lv, cmd) IN
              /\ snapshot' = IF exists
                             THEN SnapshotOutcome(AllVolumes(Some(m["volumes"]), lv), cmd)
                             ELSE "not run"
              /\ IF k.exc = "none"
                 THEN /\ kale' = Some(k.v)
                      /\ pc' = "validate_metadata"
                      /\ main_pc' = next_pc
                      /\ main_exc' = main_exc
                      /\ log' = <<>>
                 ELSE /\ kale' = None
                      /\ pc' = "none"
                      /\ main_pc' = "raised"
                      /\ main_exc' = k.exc
                      /\ log' = IF k.exc = "RuntimeError"
                                THEN <<Error("run_cmd")>>
                                ELSE <<>>
     ELSE /\ snapshot' = "not run"
          /\ kale' = None
          /\ pc' = "none"
          /\ main_pc' = "raised"
          /\ main_exc' = "KeyError"
          /\ log' = <<>>
  /\ exc' = "none"
  /\ kfp_code' = None
  /\ stages' = <<>>
  /\ written' = {}
  /\ UNCHANGED <<inputVars, metadata_arguments, generated_notebooks, fs, tmp_dirs>>

\* main, lines 64-75: the next iteration of the loop over the generated
\* notebooks, entered when the previous .run() has returned.
MainConstructSweep ==
  /\ main_pc = "loop"
  /\ pc \in {"none", "done"}
  /\ doc < Len(generated_notebooks)
  /\ LET n == generated_notebooks[doc + 1][1]
         params == generated_notebooks[doc + 1][2]
         m == metadata_arguments.v
     IN Construct(n,
                  m["experiment_name"] \o params,
                  m["pipeline_name"] \o params,
                  IF "pipeline_description" \in DOMAIN m
                  THEN m["pipeline_description"]
                         \o <<" ", "p", "a", "r", "a", "m", "s">> \o params
                  ELSE <<>>,
                  "loop")

\* main, lines 77-87: no sweep, one Kale for args.nb.
MainConstructSingle ==
  /\ main_pc = "dispatch"
  /\ "jupyter_args" \notin DOMAIN metadata_arguments.v
  /\ LET m == metadata_arguments.v
     IN Construct(argv["nb"], m["experiment_name"], m["pipeline_name"],
                  IF "pipeline_description" \in DOMAIN m
                  THEN m["pipeline_description"] ELSE <<>>,
                  "single")

\* main returns: the loop is over, or the only run has returned.
MainReturn ==
  /\ \/ main_pc = "loop" /\ doc = Len(generated_notebooks) /\ pc \in {"none", "done"}
     \/ main_pc = "single" /\ pc = "done"
  /\ main_pc' = "done"
  /\ UNCHANGED <<inputVars, metadata_arguments, main_exc, generated_notebooks, doc,
                 runVars, fileVars, log>>

\* ----------------------------------------------------------------- Kale.run

self == kale.v

\* The except clause of run: the exception raised in stage is logged and run
\* returns.
Caught(stage) ==
  /\ exc' = stage
  /\ pc' = "done"
  /\ log' = log \o <<Error(stage), Error("To see full traceback")>>

\* A stage whose exception is logged where it is raised, the run going on.
ExternalStageGoingOn(stage, next) ==
  /\ pc = stage
  /\ stages' = Append(stages, stage)
  /\ \/ pc' = next /\ exc' = exc /\ log' = log
     \/ pc' = next /\ exc' = stage /\ log' = Append(log, Error(stage))
  /\ UNCHANGED <<inputVars, mainVars, doc, kale, snapshot, kfp_code, fileVars>>

\* A stage implemented outside this package: it returns or raises.
ExternalStage(stage, next) ==
  /\ pc = stage
  /\ stages' = Append(stages, stage)
  /\ \/ pc' = next /\ exc' = exc /\ log' = log
     \/ Caught(stage)
  /\ UNCHANGED <<inputVars, mainVars, doc, kale, snapshot, kfp_code, fileVars>>

\* run, line 172
RunValidateMetadata ==
  /\ pc = "validate_metadata"
  /\ stages' = Append(stages, "validate_metadata")
  /\ IF validate_metadata(self) = "none"
     THEN pc' = "parse_notebook" /\ exc' = exc /\ log' = log
     ELSE Caught("validate_metadata")
  /\ UNCHANGED <<inputVars, mainVars, doc, kale, snapshot, kfp_code, fileVars>>

\* run, line 175
RunParseNotebook == ExternalStage("parse_notebook", "pipeline_parameters_detection")

\* run, line 177
RunPipelineParametersDetection ==
  ExternalStage("pipeline_parameters_detection", "variables_dependencies_detection")

\* run, line 180
RunVariablesDependenciesDetection ==
  ExternalStage("variables_dependencies_detection", "gen_kfp_code")

\* run, lines 185-192: gen_kfp_code returns the source text, or raises.
RunGenKfpCode ==
  /\ pc = "gen_kfp_code"
  /\ stages' = Append(stages, "gen_kfp_code")
  /\ \/ /\ kfp_code' \in {Some(c) : c \in Codes}
        /\ pc' = "save_pipeline" /\ exc' = exc /\ log' = log
     \/ /\ kfp_code' = kfp_code
        /\ Caught("gen_kfp_code")
  /\ UNCHANGED <<inputVars, mainVars, doc, kale, snapshot, fileVars>>

\* open(path, "w") and f.write(text); a failed write leaves the file empty.
WriteFile(files, path, text) ==
  [p \in (DOMAIN files) \cup {path} |-> IF p = path THEN text ELSE files[p]]

\* os.remove(path)
RemoveFile(files, path) ==
  [p \in (DOMAIN files) \ {path} |-> files[p]]

\* Kale.save_pipeline (run, line 195): the text is written to output_path and
\* the path logged; open or write may fail.
RunSavePipeline ==
  /\ pc = "save_pipeline"
  /\ stages' = Append(stages, "save_pipeline")
  /\ \/ /\ fs' = WriteFile(fs, self.output_path, kfp_code.v)
        /\ written' = written \cup {self.output_path}
        /\ saved' = [saved EXCEPT ![doc] =
                       Some([path |-> self.output_path, code |-> kfp_code.v])]
        /\ pc' = "deploy_check" /\ exc' = exc
        /\ log' = Append(log, Info("Pipeline code saved"))
     \/ /\ UNCHANGED <<fs, written, saved>>
        /\ Caught("save_pipeline")
     \/ /\ fs' = WriteFile(fs, self.output_path, "")
        /\ written' = written \cup {self.output_path}
        /\ saved' = saved
        /\ Caught("save_pipeline")
  /\ UNCHANGED <<inputVars, mainVars, doc, kale, snapshot, kfp_code, tmp_dirs>>

\* run, lines 198-199: deploy when upload_pipeline or run_pipeline, else return.
RunDeployCheck ==
  /\ pc = "deploy_check"
  /\ pc' = IF self.upload_pipeline \/ self.run_pipeline
           THEN "deploy_pipeline_to_kfp" ELSE "done"
  /\ UNCHANGED <<inputVars, mainVars, doc, kale, snapshot, exc, kfp_code, stages, fileVars, log>>

\* ------------------------------------------------- deploy_pipeline_to_kfp

pipeline_filename == PipelineFilename(self.pipeline_name)

\* deploy_pipeline_to_kfp, lines 211-222: import kfp, copy the generated
\* script into a fresh directory and import it.  The imports may fail before
\* anything is copied, and executing the module may fail after.
DeployLoad ==
  /\ pc = "deploy_pipeline_to_kfp"
  /\ stages' = Append(stages, "deploy_pipeline_to_kfp")
  /\ \/ /\ UNCHANGED <<fs, written, tmp_dirs>>
        /\ Caught("deploy_pipeline_to_kfp")
     \/ /\ tmp_dirs' = tmp_dirs + 1
        /\ fs' = WriteFile(fs, TmpCopyPath(tmp_dirs + 1), fs[self.output_path])
        /\ written' = written \cup {TmpCopyPath(tmp_dirs + 1)}
        /\ \/ pc' = "compile" /\ exc' = exc /\ log' = log
           \/ Caught("deploy_pipeline_to_kfp")
  /\ UNCHANGED <<inputVars, mainVars, doc, kale, snapshot, kfp_code, saved>>

\* deploy_pipeline_to_kfp, lines 224-225, outside the try: the compiler
\* writes the package, or raises before writing it, or raises while writing.
DeployCompile ==
  /\ pc = "compile"
  /\ stages' = Append(stages, "compile")
  /\ \/ /\ fs' = WriteFile(fs, pipeline_filename, "package")
        /\ written' = written \cup {pipeline_filename}
        /\ pc' = "client" /\ exc' = exc /\ log' = log
     \/ /\ UNCHANGED <<fs, written>>
        /\ Caught("compile")
     \/ /\ fs' = WriteFile(fs, pipeline_filename, "")
        /\ written' = written \cup {pipeline_filename}
        /\ Caught("compile")
  /\ UNCHANGED <<inputVars, mainVars, doc, kale, snapshot, kfp_code, saved, tmp_dirs>>

\* os.remove on the generated source instead of the package.
RemovedOnFailureIsSource == self.output_path

\* The file os.remove deletes in the except clause, line 246.
RemovedOnFailure == pipeline_filename

\* deploy_pipeline_to_kfp, lines 244-248: the package is removed and the
\* exception raised again, to be caught by run.
DeployExcept(stage) ==
  /\ fs' = RemoveFile(fs, RemovedOnFailure)
  /\ Caught(stage)

\* The run submitted without the upload when both are asked for.
AfterClientRunFirst ==
  IF self.run_pipeline THEN "create_experiment"
  ELSE IF self.upload_pipeline THEN "upload_pipeline" ELSE "done"

\* What follows the client, and the upload: lines 233 and 236.
AfterClient ==
  IF self.upload_pipeline THEN "upload_pipeline"
  ELSE IF self.run_pipeline THEN "create_experiment" ELSE "done"

AfterUpload == IF self.run_pipeline THEN "create_experiment" ELSE "done"

\* A call on the kfp client inside the try: it returns or raises.
DeployStep(stage, next) ==
  /\ pc = stage
  /\ stages' = Append(stages, stage)
  /\ \/ pc' = next /\ exc' = exc /\ fs' = fs
        /\ log' = IF stage = "run_pipeline"
                  THEN Append(log, Info("Deployment Successful"))
                  ELSE log
     \/ DeployExcept(stage)
  /\ UNCHANGED <<inputVars, mainVars, doc, kale, snapshot, kfp_code, written, saved, tmp_dirs>>

\* line 230
DeployClient == DeployStep("client", AfterClient)

\* line 234
DeployUploadPipeline == DeployStep("upload_pipeline", AfterUpload)

\* line 238
DeployCreateExperiment == DeployStep("create_experiment", "run_pipeline")

\* lines 240-243
DeployRunPipeline == DeployStep("run_pipeline", "done")

\* --------------------------------------------------------------------- Spec

Next ==
  \/ MainStart
  \/ MainGenerate
  \/ MainConstructSweep
  \/ MainConstructSingle
  \/ MainReturn
  \/ RunValidateMetadata
  \/ RunParseNotebook
  \/ RunPipelineParametersDetection
  \/ RunVariablesDependenciesDetection
  \/ RunGenKfpCode
  \/ RunSavePipeline
  \/ RunDeployCheck
  \/ DeployLoad
  \/ DeployCompile
  \/ DeployClient
  \/ DeployUploadPipeline
  \/ DeployCreateExperiment
  \/ DeployRunPipeline

Spec == Init /\ [][Next]_vars

\* ------------------------------------------- create_cloned_volumes alone

\* The longest list of requested volumes tried.
MaxVolumes == 2

VolumeRecords ==
  {Vol("clone", <<"a">>), Vol("clone", <<"c">>), Vol("pvc", <<"a">>),
   [type |-> "new_pvc", name |-> <<"b">>,
    annotation |-> [key |-> "k", value |-> "w"]]}

InitVolumes ==
  /\ cv_volumes \in SeqsUpTo(VolumeRecords, MaxVolumes)
  /\ cv_cmd \in {Some(c) : c \in CommandResults}
  /\ cv_result = None
  /\ argv = CommandLine({})
  /\ notebook_metadata = EmptyDict
  /\ metadata_arguments = None
  /\ main_pc = "start"
  /\ main_exc = "none"
  /\ generated_notebooks = <<>>
  /\ doc = 0
  /\ kale = None
  /\ pc = "none"
  /\ exc = "none"
  /\ kfp_code = None
  /\ stages = <<>>
  /\ fs = EmptyDict
  /\ written = {}
  /\ saved = <<>>
  /\ tmp_dirs = 0
  /\ snapshot = "not run"
  /\ log = <<>>

\* One call of create_cloned_volumes.
CreateClonedVolumes ==
  /\ cv_result = None
  /\ cv_result' = Some(create_cloned_volumes(cv_volumes, cv_cmd.v))
  /\ UNCHANGED <<argv, notebook_metadata, cv_volumes, cv_cmd, mainVars, doc,
                 runVars, fileVars, log>>

NextVolumes == CreateClonedVolumes

SpecVolumes == InitVolumes /\ [][NextVolumes]_vars


\* ------------------------------------------------------------------- claims

Range(q) == {q[i] : i \in 1..Len(q)}

IsPrefix(a, b) == Len(a) <= Len(b) /\ a = SubSeq(b, 1, Len(a))

StageOrder ==
  <<"validate_metadata", "parse_notebook", "pipeline_parameters_detection",
    "variables_dependencies_detection", "gen_kfp_code", "save_pipeline",
    "deploy_pipeline_to_kfp">>

IsRunStage(s) == s \in Range(StageOrder)

IsDeployStep(s) == ~IsRunStage(s)

RunStarted == stages # <<>>

Ended == main_pc \in {"done", "raised"}

\* C1: in every run the stages start in the fixed order validate_metadata,
\* parse_notebook, pipeline_parameters_detection,
\* variables_dependencies_detection, gen_kfp_code, save_pipeline, then
\* (optionally) deploy_pipeline_to_kfp; once a stage has raised, the run is
\* over and that stage is the last one started, so a stage that raises before
\* save_pipeline leaves no file written and no deployment attempted.
C1_StagesInOrder ==
  /\ IsPrefix(SelectSeq(stages, IsRunStage), StageOrder)
  /\ exc # "none" => pc = "done" /\ stages[Len(stages)] = exc
  /\ exc \in Range(SubSeq(StageOrder, 1, 5)) =>
       /\ written = {}
       /\ saved[doc] = None
       /\ "deploy_pipeline_to_kfp" \notin Range(stages)

\* C1: the dependency analysis raised, after three stages that returned.
C1_Witness ==
  /\ exc = "variables_dependencies_detection"
  /\ pc = "done"
  /\ Len(stages) = 4

\* C2: in a sweep, when main ends, Kale(...) has been called for every
\* generated notebook, whatever happened to its siblings.
C2_SiblingsIndependent ==
  (Ended /\ ~metadata_arguments.none /\ "jupyter_args" \in DOMAIN metadata_arguments.v)
    => doc = Len(generated_notebooks)

\* C3: from the start of deploy_pipeline_to_kfp on, whatever it does, the
\* file at output_path holds the text gen_kfp_code returned; and when the
\* run has returned after a failure, the failure is in the log as an error.
C3_DeployKeepsSource ==
  "deploy_pipeline_to_kfp" \in Range(stages) =>
    /\ self.output_path \in DOMAIN fs
    /\ fs[self.output_path] = kfp_code.v
    /\ (pc = "done" /\ exc # "none") => Error(exc) \in Range(log)

\* C3: the creation of the experiment failed, after the package was made.
C3_Witness ==
  /\ pc = "done"
  /\ exc = "create_experiment"
  /\ fs[self.output_path] = kfp_code.v

\* C4: when the snapshot command exits with a non-zero code (RuntimeError),
\* or a requested clone has no member of its name in the snapshot
\* (ValueError), Kale(...) raises out of main: there is no instance, no stage
\* of run starts and nothing is written.
C4_SnapshotFailureIsFatal ==
  snapshot \in {"failed", "missing"} =>
    /\ main_pc = "raised"
    /\ main_exc = (IF snapshot = "failed" THEN "RuntimeError" ELSE "ValueError")
    /\ kale = None
    /\ pc = "none"
    /\ stages = <<>>
    /\ written = {}

\* C4: the second notebook of a sweep, whose snapshot lacks a member.
C4_Witness ==
  /\ snapshot = "missing"
  /\ doc = 2
  /\ main_pc = "raised"

\* <directory of the source notebook>/kfp_<pipeline_name>.kfp.py
ExpectedOutputPath(k) ==
  LET d == Dirname(k.source_path) IN
    (IF d = <<>> THEN <<>> ELSE d \o <<"/">>)
      \o <<"k", "f", "p", "_">> \o k.pipeline_name
      \o <<".", "k", "f", "p", ".", "p", "y">>

Suffix(i) == generated_notebooks[i][2]

SweepDocs == 1..(IF Len(generated_notebooks) < doc THEN Len(generated_notebooks) ELSE doc)

C6_CommandLineThenNotebook ==
  ~metadata_arguments.none =>
    \A k \in ArgKeys :
      /\ k \in DOMAIN argv =>
           k \in DOMAIN metadata_arguments.v /\ metadata_arguments.v[k] = argv[k]
      /\ (k \notin DOMAIN argv /\ k \in DOMAIN notebook_metadata) =>
           k \in DOMAIN metadata_arguments.v
             /\ metadata_arguments.v[k] = notebook_metadata[k]

\* The first snapshot member named like the volume.
FirstMember(volume, members) ==
  members[CHOOSE i \in 1..Len(members) :
            /\ members[i].object_name = volume["name"]
            /\ \A j \in 1..(i - 1) : members[j].object_name # volume["name"]]

\* C7: for every list of volumes (the empty one and those with no clone
\* included) whose clones each have a snapshot member of their name,
\* create_cloned_volumes returns a list of the same length and order, each
\* volume that is not a clone unchanged, each clone with type 'new_pvc' and
\* the annotation rok/origin = the rok_url of the first member of its name.
C7_ClonedVolumes ==
  LET members == cv_cmd.v.out.group_members
      clones == {i \in 1..Len(cv_volumes) : cv_volumes[i]["type"] = "clone"}
      r == cv_result.v
  IN
    (/\ ~cv_result.none
     /\ \A i \in clones :
          /\ cv_cmd.v.exit_code = 0
          /\ \E j \in 1..Len(members) :
               members[j].object_name = cv_volumes[i]["name"])
    =>
     /\ r.exc = "none"
     /\ ~r.v.none
     /\ Len(r.v.v) = Len(cv_volumes)
     /\ \A i \in 1..Len(cv_volumes) :
          r.v.v[i] =
            IF i \in clones
            THEN DictMerge(cv_volumes[i],
                           [type |-> "new_pvc",
                            annotation |->
                              [key |-> "rok/origin",
                               value |-> FirstMember(cv_volumes[i], members).rok_url]])
            ELSE cv_volumes[i]

\* The steps of a deployment with these flags.
ExpectedDeploySteps(k) ==
  <<"compile", "client">>
    \o (IF k.upload_pipeline THEN <<"upload_pipeline">> ELSE <<>>)
    \o (IF k.run_pipeline THEN <<"create_experiment", "run_pipeline">> ELSE <<>>)

\* C8: deployment starts only when upload_pipeline or run_pipeline is set and
\* save_pipeline has completed, and a run that returns after a completed
\* save_pipeline has started it exactly when one of them is set; the steps of
\* a deployment follow its start in the order compile, client, upload (only
\* when upload_pipeline), create_experiment and run_pipeline (only when
\* run_pipeline).
C8_DeployWhenAsked ==
  RunStarted =>
    /\ "deploy_pipeline_to_kfp" \in Range(stages) =>
         /\ self.upload_pipeline \/ self.run_pipeline
         /\ saved[doc] # None
    /\ (pc = "done" /\ saved[doc] # None) =>
         ("deploy_pipeline_to_kfp" \in Range(stages)
            <=> (self.upload_pipeline \/ self.run_pipeline))
    /\ stages = SelectSeq(stages, IsRunStage) \o SelectSeq(stages, IsDeployStep)
    /\ IsPrefix(SelectSeq(stages, IsDeployStep), ExpectedDeploySteps(self))
    /\ (pc = "done" /\ exc = "none" /\ "deploy_pipeline_to_kfp" \in Range(stages)) =>
         SelectSeq(stages, IsDeployStep) = ExpectedDeploySteps(self)

\* C8: a deployment that uploaded the pipeline and submitted a run.
C8_Witness ==
  /\ pc = "done"
  /\ exc = "none"
  /\ Len(SelectSeq(stages, IsDeployStep)) = 5

\* C9: when deploy_pipeline_to_kfp has failed in the compilation of the
\* package or after it, the package file does not exist when run returns,
\* and the log holds the error and no report of a successful deployment.
C9_PackageRemovedOnFailure ==
  (pc = "done" /\ exc # "none" /\ IsDeployStep(exc)) =>
    /\ pipeline_filename \notin DOMAIN fs
    /\ Error(exc) \in Range(log)
    /\ Info("Deployment Successful") \notin Range(log)

\* The conditions under which C10 has validate_metadata raise.
MetadataInvalid(k) ==
  \/ ~MatchKaleBlockName(k.pipeline_name)
  \/ /\ ~k.volumes.none
     /\ \E i \in 1..Len(k.volumes.v) : VolumeInvalid(k.volumes.v[i])

\* C10: validate_metadata raises exactly when the pipeline name or a volume
\* is invalid; for every other instance, one with no volumes included, it
\* returns and the run goes on to parse_notebook.
C10_ValidateExactly ==
  "validate_metadata" \in Range(stages) =>
    /\ exc = "validate_metadata" <=> MetadataInvalid(self)
    /\ ~MetadataInvalid(self) =>
         pc = "parse_notebook" \/ "parse_notebook" \in Range(stages)

\* main has raised 'Required argument not found': before any notebook was
\* generated and before any Kale(...) call.
RequiredArgumentNotFound ==
  /\ main_pc = "raised"
  /\ main_exc = "ValueError"
  /\ doc = 0
  /\ generated_notebooks = <<>>

\* C11: once the metadata is merged, main has rejected the invocation with
\* 'Required argument not found', before generating a notebook or
\* constructing a Kale, exactly when one of experiment_name, pipeline_name,
\* docker_image is not in the merged metadata; and when all three are in it,
\* main does not fail on a missing argument (a KeyError) on its way to the
\* construction of a Kale instance.
C11_RequiredArguments ==
  ~metadata_arguments.none =>
    LET missing == \E r \in REQUIRED_ARGUMENTS : r \notin DOMAIN metadata_arguments.v IN
      /\ RequiredArgumentNotFound <=> missing
      /\ ~missing => main_exc # "KeyError"

====
